---- MODULE Spec2Model ----
(***************************************************************************)
(* A model of package env (src/env.go): populating the fields of a         *)
(* structured record from the process environment, driven by the field     *)
(* tags `env`, `envDefault` and `envExpand`.                                *)
(*                                                                         *)
(* Go strings are sequences of pieces.  A piece is one character where the *)
(* code looks at characters ("$", "{", "}", ",", digits, the letters of a  *)
(* variable name) and a whole word where it does not (an option token such *)
(* as "required", the fixed text of an error message).  The string denoted *)
(* is the concatenation of the pieces.                                     *)
(***************************************************************************)
EXTENDS Integers, Sequences, FiniteSets, TLC

(***************************************************************************)
(* Bounds of the model.                                                    *)
(***************************************************************************)
\* the longest record handed to a parse call
MaxFields == 2
\* the longest option list of a generated `env` tag
MaxOpts == 2

(***************************************************************************)
(* Values and errors.                                                      *)
(***************************************************************************)
\* a nil error
NoErr == [nil |-> TRUE, msg |-> <<>>]

\* errors.New / fmt.Errorf: an error carrying the message msg
Err(msg) == [nil |-> FALSE, msg |-> msg]

\* ErrNotAStructPtr
ErrNotAStructPtr == Err(<<"Expected a pointer to a Struct">>)

\* ErrUnsupportedType
ErrUnsupportedType == Err(<<"Type is not supported">>)

\* the value of a string field
StrVal(s) == [k |-> "string", n |-> 0, s |-> s]

\* the value of an int field
IntVal(n) == [k |-> "int", n |-> n, s |-> <<>>]

\* the value slot of a pointer field (the pointer itself is isNil/target)
NoVal == [k |-> "none", n |-> 0, s |-> <<>>]

\* fmt's %q of a string without characters that need escaping
Quote(s) == <<"\"">> \o s \o <<"\"">>

(***************************************************************************)
(* The standard library functions the package calls, on piece sequences.   *)
(***************************************************************************)
RECURSIVE SplitFrom(_, _, _, _)
\* strings.Split(s, sep) for a one-piece separator: cur is the part being
\* read, i the next position
SplitFrom(s, sep, i, cur) ==
  IF i > Len(s) THEN <<cur>>
  ELSE IF s[i] = sep THEN <<cur>> \o SplitFrom(s, sep, i + 1, <<>>)
  ELSE SplitFrom(s, sep, i + 1, Append(cur, s[i]))

\* strings.Split(s, sep)
Split(s, sep) == SplitFrom(s, sep, 1, <<>>)

\* Join as a loop that stops at the first element
JoinFirstOnly(elems, sep) == IF Len(elems) = 0 THEN <<>> ELSE elems[1]

RECURSIVE Join(_, _)
\* strings.Join(elems, sep)
Join(elems, sep) ==
  IF Len(elems) = 0 THEN <<>>
  ELSE IF Len(elems) = 1 THEN elems[1]
  ELSE elems[1] \o sep \o Join(Tail(elems), sep)

\* unicode.ToLower on one piece: the words of the model that have upper case
LowerPiece(c) ==
  CASE c = "TRUE" -> "true"
    [] c = "True" -> "true"
    [] c = "FALSE" -> "false"
    [] c = "H" -> "h"
    [] c = "K" -> "k"
    [] c = "J" -> "j"
    [] c = "P" -> "p"
    [] OTHER -> c

\* strings.ToLower
ToLower(s) == [i \in 1..Len(s) |-> LowerPiece(s[i])]

\* the decimal digits
Digits == {"0", "1", "2", "3", "4", "5", "6", "7", "8", "9"}

\* the value of a digit
DigitVal(c) ==
  CASE c = "0" -> 0 [] c = "1" -> 1 [] c = "2" -> 2 [] c = "3" -> 3
    [] c = "4" -> 4 [] c = "5" -> 5 [] c = "6" -> 6 [] c = "7" -> 7
    [] c = "8" -> 8 [] c = "9" -> 9

\* os: isShellSpecialVar
isShellSpecialVar(c) == c \in {"*", "#", "$", "@", "!", "?", "-"} \cup Digits

\* os: isAlphaNum, on the letters the strings of the model are made of
isAlphaNum(c) == c \in {"_", "H", "K", "J", "P", "h", "k", "j", "p", "x", "a", "b"} \cup Digits

\* os.LookupEnv on the environment e (a function from the set keys to their
\* values); the empty name is never found
LookupEnv(e, key) ==
  IF key # <<>> /\ key \in DOMAIN e
    THEN [value |-> e[key], ok |-> TRUE]
    ELSE [value |-> <<>>, ok |-> FALSE]

\* os.Getenv
Getenv(e, key) == LookupEnv(e, key).value

RECURSIVE ScanBrace(_, _)
\* os.getShellName, the scan to the closing brace: s starts with "{"
ScanBrace(s, i) ==
  IF i > Len(s) THEN [name |-> <<>>, w |-> 1]
  ELSE IF s[i] = "}"
    THEN IF i = 2 THEN [name |-> <<>>, w |-> 2]
         ELSE [name |-> SubSeq(s, 2, i - 1), w |-> i]
  ELSE ScanBrace(s, i + 1)

RECURSIVE ScanAlnum(_, _)
\* os.getShellName, the scan of alphanumerics: the number of leading ones
ScanAlnum(s, i) ==
  IF i <= Len(s) /\ isAlphaNum(s[i]) THEN ScanAlnum(s, i + 1) ELSE i - 1

\* os.getShellName(s), s not empty: the name after a "$" and its width
getShellName(s) ==
  IF s[1] = "{"
    THEN IF Len(s) > 2 /\ isShellSpecialVar(s[2]) /\ s[3] = "}"
           THEN [name |-> <<s[2]>>, w |-> 3]
           ELSE ScanBrace(s, 2)
  ELSE IF isShellSpecialVar(s[1]) THEN [name |-> <<s[1]>>, w |-> 1]
  ELSE LET n == ScanAlnum(s, 1) IN [name |-> SubSeq(s, 1, n), w |-> n]

RECURSIVE ExpandFrom(_, _, _)
\* os.Expand(s, os.Getenv) from position j on
ExpandFrom(e, s, j) ==
  IF j > Len(s) THEN <<>>
  ELSE IF s[j] = "$" /\ j < Len(s)
    THEN LET sn == getShellName(SubSeq(s, j + 1, Len(s)))
             out == IF sn.name = <<>> /\ sn.w > 0 THEN <<>>
                    ELSE IF sn.name = <<>> THEN <<s[j]>>
                    ELSE Getenv(e, sn.name)
         IN out \o ExpandFrom(e, s, j + sn.w + 1)
  ELSE <<s[j]>> \o ExpandFrom(e, s, j + 1)

\* os.ExpandEnv
ExpandEnv(e, s) == ExpandFrom(e, s, 1)

\* the largest value of bitSize 32: the cutoff 2^31 less one
MaxInt32 == 2147483647

\* a number n below 2^33 held as hi * 100000 + lo, the way the 64-bit
\* accumulator of strconv.ParseUint holds it
Wide(hi, lo) == [hi |-> hi, lo |-> lo]

\* n * 10 + d on a wide number
WideStep(n, d) ==
  Wide(n.hi * 10 + (n.lo * 10 + d) \div 100000, (n.lo * 10 + d) % 100000)

\* a wide number is above the bound hi * 100000 + lo
WideAbove(n, hi, lo) == n.hi > hi \/ (n.hi = hi /\ n.lo > lo)

RECURSIVE ParseDigits(_, _, _)
\* strconv.ParseUint's loop over the characters from position i on, with the
\* value so far: a character that is no digit is a syntax error, a value
\* above maxVal = 2^32 - 1 a range error at the digit that reaches it
ParseDigits(s, i, acc) ==
  IF i > Len(s) THEN [un |-> acc, err |-> "nil"]
  ELSE IF s[i] \notin Digits THEN [un |-> Wide(0, 0), err |-> "syntax"]
  ELSE IF WideAbove(WideStep(acc, DigitVal(s[i])), 42949, 67295)
    THEN [un |-> Wide(42949, 67295), err |-> "range"]
  ELSE ParseDigits(s, i + 1, WideStep(acc, DigitVal(s[i])))

\* strconv.ParseUint(s, 10, 32)
ParseUint(s) ==
  IF Len(s) = 0 THEN [un |-> Wide(0, 0), err |-> "syntax"]
  ELSE ParseDigits(s, 1, Wide(0, 0))

\* the message of a *strconv.NumError of ParseInt
NumError(s, what) ==
  Err(<<"strconv.ParseInt: parsing ">> \o Quote(s) \o <<": ", what>>)

\* strconv.ParseInt(s, 10, 32): the sign, ParseUint, then the cutoff 2^31
ParseInt(s) ==
  IF Len(s) = 0 THEN [n |-> 0, err |-> NumError(s, "invalid syntax")]
  ELSE
    LET neg == s[1] = "-"
        body == IF s[1] \in {"+", "-"} THEN Tail(s) ELSE s
        u == ParseUint(body)
    IN IF u.err = "syntax" THEN [n |-> 0, err |-> NumError(s, "invalid syntax")]
       ELSE IF ~neg /\ WideAbove(u.un, 21474, 83647)
         THEN [n |-> MaxInt32, err |-> NumError(s, "value out of range")]
       ELSE IF neg /\ WideAbove(u.un, 21474, 83648)
         THEN [n |-> (0 - MaxInt32) - 1, err |-> NumError(s, "value out of range")]
       ELSE IF neg /\ u.un = Wide(21474, 83648)
         THEN [n |-> (0 - MaxInt32) - 1, err |-> NoErr]
       ELSE [n |-> IF neg THEN 0 - (u.un.hi * 100000 + u.un.lo)
                   ELSE u.un.hi * 100000 + u.un.lo,
             err |-> NoErr]

(***************************************************************************)
(* Records.  A field of a struct is its type, its three tags and its       *)
(* current value.  A pointer field (type "ptr") points to a struct or to   *)
(* an int (elem); target is the struct it points to (its fields), or, for  *)
(* a nil pointer, the zero value of that struct.                           *)
(***************************************************************************)
\* a field of type string or int
Plain(type, env, def, exp, val) ==
  [type |-> type, env |-> env, envDefault |-> def, envExpand |-> exp,
   val |-> val, elem |-> "", isNil |-> FALSE, target |-> <<>>]

\* a field of a pointer type
Pointer(elem, env, def, isNil, target) ==
  [type |-> "ptr", env |-> env, envDefault |-> def, envExpand |-> <<>>,
   val |-> NoVal, elem |-> elem, isNil |-> isNil, target |-> target]

(***************************************************************************)
(* Caller-supplied converters (type ParserFunc): a registry maps a type    *)
(* name to one of these sample functions.                                  *)
(***************************************************************************)
\* parserFunc(value) for the sample converters of the model
ApplyParser(name, value) ==
  CASE name = "len" -> [val |-> IntVal(100 + Len(value)), err |-> NoErr]
    [] name = "mark" -> [val |-> StrVal(<<"custom:">> \o value), err |-> NoErr]
    [] OTHER -> [val |-> NoVal, err |-> Err(<<"boom">>)]

(***************************************************************************)
(* The field resolver.                                                     *)
(***************************************************************************)
\* parseKeyForOption: the key and the options of an `env` tag
parseKeyForOption(key) ==
  LET opts == Split(key, ",") IN [key |-> opts[1], opts |-> Tail(opts)]

\* getRequired reading the variable with Getenv: an empty value counts as
\* not set
getRequiredNonEmpty(e, key, prefix) ==
  LET r == LookupEnv(e, prefix \o key)
  IN IF r.ok /\ r.value # <<>> THEN [val |-> r.value, err |-> NoErr]
     ELSE [val |-> <<>>,
           err |-> Err(<<"required environment variable ">> \o Quote(key)
                       \o <<" is not set">>)]

\* getRequired
getRequired(e, key, prefix) ==
  LET r == LookupEnv(e, prefix \o key)
  IN IF r.ok THEN [val |-> r.value, err |-> NoErr]
     ELSE [val |-> <<>>,
           err |-> Err(<<"required environment variable ">> \o Quote(key)
                       \o <<" is not set">>)]

\* getOrWithPrefix reading the variable with Getenv: an empty value gives
\* way to the default
getOrWithPrefixNonEmpty(e, key, prefix, defaultValue) ==
  LET r == LookupEnv(e, prefix \o key)
  IN IF r.ok /\ r.value # <<>> THEN r.value ELSE defaultValue

\* getOrWithPrefix
getOrWithPrefix(e, key, prefix, defaultValue) ==
  LET r == LookupEnv(e, prefix \o key)
  IN IF r.ok THEN r.value ELSE defaultValue

RECURSIVE optLoop(_, _, _, _, _, _, _)
\* get: the loop over the options, from option i on, with the value and
\* the error so far
optLoop(e, key, prefix, opts, i, val, err) ==
  IF i > Len(opts) THEN [val |-> val, err |-> err]
  ELSE IF opts[i] = <<>> THEN optLoop(e, key, prefix, opts, i + 1, val, err)
  ELSE IF opts[i] = <<"required">>
    THEN LET r == getRequired(e, key, prefix)
         IN optLoop(e, key, prefix, opts, i + 1, r.val, r.err)
  ELSE optLoop(e, key, prefix, opts, i + 1, val,
               Err(<<"env tag option ">> \o Quote(opts[i]) \o <<" not supported">>))

\* get: the raw string of a field, or the error of its resolution
get(e, field, prefix) ==
  LET ko == parseKeyForOption(field.env)
      val0 == getOrWithPrefix(e, ko.key, prefix, field.envDefault)
      val1 == IF ToLower(field.envExpand) = <<"true">>
                THEN ExpandEnv(e, val0) ELSE val0
  IN optLoop(e, ko.key, prefix, ko.opts, 1, val1, NoErr)

(***************************************************************************)
(* Conversion and assignment.                                              *)
(***************************************************************************)
\* handleTextUnmarshaler on a field whose type does not implement
\* encoding.TextUnmarshaler: a nil pointer is first set to a new zero value
handleTextUnmarshaler(field, value) ==
  [field |-> IF field.type = "ptr" /\ field.isNil
               THEN [field EXCEPT !.isNil = FALSE] ELSE field,
   err |-> ErrUnsupportedType]

\* set: convert value and assign it to the field
set(field, value, funcMap) ==
  IF field.type \in DOMAIN funcMap
    THEN LET r == ApplyParser(funcMap[field.type], value)
         IN IF ~r.err.nil
              THEN [field |-> field,
                    err |-> Err(<<"Custom parser error: ">> \o r.err.msg)]
              ELSE [field |-> [field EXCEPT !.val = r.val], err |-> NoErr]
  ELSE IF field.type = "string"
    THEN [field |-> [field EXCEPT !.val = StrVal(value)], err |-> NoErr]
  ELSE IF field.type = "int"
    THEN LET r == ParseInt(value)
         IN IF ~r.err.nil THEN [field |-> field, err |-> r.err]
            ELSE [field |-> [field EXCEPT !.val = IntVal(r.n)], err |-> NoErr]
  ELSE handleTextUnmarshaler(field, value)

(***************************************************************************)
(* The population engine.  A parse returns the fields of the record after  *)
(* it (fields), the error (err), the calls of the hook OnEnvVarSet in      *)
(* order (calls) and the fields the loop reached in order (visited).       *)
(***************************************************************************)
\* reflect's CanSet on a field of the record: the record is reached through
\* a pointer and every field of the model is exported
CanSet(field) == TRUE

\* the interface value refField.Interface() of a pointer field
Interface(field) ==
  [ptr |-> TRUE, elem |-> field.elem, fields |-> field.target]

RECURSIVE doParseFrom(_, _, _, _, _, _)
RECURSIVE ParseWithPrefixFuncs(_, _, _, _, _)

\* Parse
Parse(e, onSet, v) == ParseWithPrefixFuncs(e, onSet, v, <<>>, <<>>)

\* ParseWithPrefix
ParseWithPrefix(e, onSet, v, prefix) ==
  ParseWithPrefixFuncs(e, onSet, v, prefix, <<>>)

\* ParseWithFuncs
ParseWithFuncs(e, onSet, v, funcMap) ==
  ParseWithPrefixFuncs(e, onSet, v, <<>>, funcMap)

\* what the loop did with field i: step is the branch it took ("recurse",
\* "getError", "empty", "setError" or "set"), raw the string get returned,
\* msg the error message of the branch, nested the fields a recursion reached
Visit(i, step, raw, msg, nested) ==
  [index |-> i, step |-> step, raw |-> raw, msg |-> msg, nested |-> nested]

\* the call OnEnvVarSet(refTypeField, value)
HookCall(i, refTypeField, value) ==
  [index |-> i, type |-> refTypeField.type, env |-> refTypeField.env, value |-> value]

\* doParse: the loop over the fields from field i on; st holds the fields,
\* errorList, and the hook calls and visited fields so far
doParseFrom(e, onSet, st, i, prefix, funcMap) ==
  IF i > Len(st.fields)
    THEN [fields |-> st.fields,
          err |-> IF Len(st.errorList) = 0 THEN NoErr
                  ELSE Err(Join(st.errorList, <<". ">>)),
          calls |-> st.calls, visited |-> st.visited]
  ELSE LET refField == st.fields[i] IN
    IF refField.type = "ptr" /\ ~refField.isNil /\ CanSet(refField)
      THEN LET r == Parse(e, onSet, Interface(refField))
               st1 == [st EXCEPT !.fields[i].target = r.fields,
                                 !.calls = @ \o r.calls,
                                 !.visited = Append(@, Visit(i, "recurse", <<>>, r.err.msg, r.visited))]
           IN IF ~r.err.nil
                THEN [fields |-> st1.fields, err |-> r.err,
                      calls |-> st1.calls, visited |-> st1.visited]
                ELSE doParseFrom(e, onSet, st1, i + 1, prefix, funcMap)
    ELSE LET g == get(e, refField, prefix) IN
      IF ~g.err.nil
        THEN doParseFrom(e, onSet,
               [st EXCEPT !.errorList = Append(@, g.err.msg),
                          !.visited = Append(@, Visit(i, "getError", g.val, g.err.msg, <<>>))],
               i + 1, prefix, funcMap)
      ELSE IF g.val = <<>>
        THEN doParseFrom(e, onSet,
               [st EXCEPT !.visited = Append(@, Visit(i, "empty", g.val, <<>>, <<>>))],
               i + 1, prefix, funcMap)
      ELSE LET r == set(refField, g.val, funcMap) IN
        IF ~r.err.nil
          THEN doParseFrom(e, onSet,
                 [st EXCEPT !.fields[i] = r.field,
                            !.errorList = Append(@, r.err.msg),
                            !.visited = Append(@, Visit(i, "setError", g.val, r.err.msg, <<>>))],
                 i + 1, prefix, funcMap)
          ELSE doParseFrom(e, onSet,
                 [st EXCEPT !.fields[i] = r.field,
                            !.calls = IF onSet THEN Append(@, HookCall(i, refField, g.val))
                                      ELSE @,
                            !.visited = Append(@, Visit(i, "set", g.val, <<>>, <<>>))],
                 i + 1, prefix, funcMap)

\* doParse
doParse(e, onSet, ref, prefix, funcMap) ==
  doParseFrom(e, onSet,
              [fields |-> ref, errorList |-> <<>>, calls |-> <<>>, visited |-> <<>>],
              1, prefix, funcMap)

\* ParseWithPrefixFuncs without the check of what the pointer points to
ParseAnyPointer(e, onSet, v, prefix, funcMap) ==
  IF ~v.ptr
    THEN [fields |-> v.fields, err |-> ErrNotAStructPtr, calls |-> <<>>, visited |-> <<>>]
  ELSE doParse(e, onSet, v.fields, prefix, funcMap)

\* ParseWithPrefixFuncs: v must be a pointer to a struct
ParseWithPrefixFuncs(e, onSet, v, prefix, funcMap) ==
  IF ~v.ptr
    THEN [fields |-> v.fields, err |-> ErrNotAStructPtr, calls |-> <<>>, visited |-> <<>>]
  ELSE IF v.elem # "struct"
    THEN [fields |-> v.fields, err |-> ErrNotAStructPtr, calls |-> <<>>, visited |-> <<>>]
  ELSE doParse(e, onSet, v.fields, prefix, funcMap)

(***************************************************************************)
(* The state: the process environment, the hook, the value the caller      *)
(* hands to a parse call (mutated in place) and the outcome of the call.   *)
(***************************************************************************)
VARIABLES
  env,          \* the process environment: a function from names to values
  OnEnvVarSet,  \* whether the hook OnEnvVarSet is set
  v,            \* the caller's value: [ptr, elem, fields]
  v0,           \* history: the caller's value before the call
  prefix,       \* the prefix of the call
  funcMap,      \* the custom converters of the call
  pc,           \* "ready" before the call, "done" after it
  err,          \* the error the call returned
  calls,        \* the calls of the hook, in order
  visited       \* the fields the call reached, in order

vars == <<env, OnEnvVarSet, v, v0, prefix, funcMap, pc, err, calls, visited>>

\* the prefixes a caller passes
Prefixes == {<<>>, <<"P">>}

\* the registries a caller passes
FuncMaps == {<<>>, "int" :> "len", "int" :> "fail", "string" :> "mark"}

\* the state after the call returned r
Return(r, p, fm) ==
  /\ v' = [v EXCEPT !.fields = r.fields]
  /\ err' = r.err
  /\ calls' = r.calls
  /\ visited' = r.visited
  /\ prefix' = p
  /\ funcMap' = fm
  /\ pc' = "done"
  /\ UNCHANGED <<env, OnEnvVarSet, v0>>

\* a call of Parse(v)
CallParse ==
  /\ pc = "ready"
  /\ Return(Parse(env, OnEnvVarSet, v), <<>>, <<>>)

\* a call of ParseWithPrefix(v, p)
CallParseWithPrefix ==
  /\ pc = "ready"
  /\ \E p \in Prefixes : Return(ParseWithPrefix(env, OnEnvVarSet, v, p), p, <<>>)

\* a call of ParseWithFuncs(v, fm)
CallParseWithFuncs ==
  /\ pc = "ready"
  /\ \E fm \in FuncMaps : Return(ParseWithFuncs(env, OnEnvVarSet, v, fm), <<>>, fm)

\* a call of ParseWithPrefixFuncs(v, p, fm)
CallParseWithPrefixFuncs ==
  /\ pc = "ready"
  /\ \E p \in Prefixes, fm \in FuncMaps :
       Return(ParseWithPrefixFuncs(env, OnEnvVarSet, v, p, fm), p, fm)

\* Set: os.Setenv binds key to value; it refuses an empty key and a key
\* holding "=", and then the environment stays as it is
Set(e, key, value) ==
  IF key = <<>> \/ \E i \in 1..Len(key) : key[i] = "="
    THEN e
    ELSE (key :> value) @@ e

\* Unset: os.Unsetenv removes the binding of key, if any
Unset(e, key) == [k \in DOMAIN e \ {key} |-> e[k]]

\* the names and the values the caller passes to Set and Unset
SetKeys == {<<>>, <<"K">>}

SetValues == {<<>>, <<"1">>, <<"x">>}

\* a call of Set(key, value) before the parse
CallSet ==
  /\ pc = "ready"
  /\ \E key \in SetKeys, value \in SetValues : env' = Set(env, key, value)
  /\ UNCHANGED <<OnEnvVarSet, v, v0, prefix, funcMap, pc, err, calls, visited>>

\* a call of Unset(key) before the parse
CallUnset ==
  /\ pc = "ready"
  /\ \E key \in SetKeys : env' = Unset(env, key)
  /\ UNCHANGED <<OnEnvVarSet, v, v0, prefix, funcMap, pc, err, calls, visited>>

Next ==
  \/ CallSet
  \/ CallUnset
  \/ CallParse
  \/ CallParseWithPrefix
  \/ CallParseWithFuncs
  \/ CallParseWithPrefixFuncs

\* the states before a call: the environment is one of envs, the caller's
\* value one of values, the hook set or not as hooks says
InitOf(envs, values, hooks) ==
  /\ env \in envs
  /\ OnEnvVarSet \in hooks
  /\ v \in values
  /\ v0 = v
  /\ prefix = <<>>
  /\ funcMap = <<>>
  /\ pc = "ready"
  /\ err = NoErr
  /\ calls = <<>>
  /\ visited = <<>>

(***************************************************************************)
(* The inputs: environments, records and single fields.                    *)
(***************************************************************************)
\* the sequences over S of length at most n
SeqsUpTo(S, n) == UNION {[1..k -> S] : k \in 0..n}

\* the environments that bind each name of a subset of DOMAIN choice to one
\* of the values choice gives for it
EnvsOver(choice) ==
  UNION {{f \in [D -> UNION {choice[k] : k \in DOMAIN choice}] :
            \A k \in D : f[k] \in choice[k]} : D \in SUBSET DOMAIN choice}

\* a pointer to a struct with these fields
StructPtr(fields) == [ptr |-> TRUE, elem |-> "struct", fields |-> fields]

\* values that are no pointer to a struct: a struct passed by value, a
\* pointer to an int, a nil pointer
BadValues ==
  {[ptr |-> FALSE, elem |-> "struct",
    fields |-> <<Plain("int", <<"K">>, <<"5">>, <<>>, IntVal(7))>>],
   [ptr |-> TRUE, elem |-> "int", fields |-> <<>>],
   [ptr |-> TRUE, elem |-> "invalid", fields |-> <<>>]}

\* the `env` tag of a key and its options
TagOf(key, opts) == Join(<<key>> \o opts, <<",">>)

\* the option tokens of generated tags
OptTokens == {<<"required">>, <<"bogus">>, <<>>}

\* the struct a pointer field of the model points to
Inner == <<Plain("int", <<"K">>, <<>>, <<>>, IntVal(0))>>

\* the fields of the records of Spec
Catalog ==
  {Plain("int", <<>>, <<>>, <<>>, IntVal(7)),
   Plain("int", <<"K">>, <<>>, <<>>, IntVal(7)),
   Plain("int", <<"K">>, <<"5">>, <<>>, IntVal(7)),
   Plain("string", <<"K", ",", "required">>, <<>>, <<>>, StrVal(<<"old">>)),
   Plain("string", <<"K", ",", "bogus">>, <<>>, <<>>, StrVal(<<"old">>)),
   Pointer("struct", <<>>, <<>>, TRUE, Inner),
   Pointer("struct", <<"K">>, <<>>, TRUE, Inner),
   Pointer("struct", <<>>, <<>>, FALSE, Inner),
   Pointer("int", <<>>, <<>>, FALSE, <<>>)}

\* the environments of Spec
Envs ==
  EnvsOver((<<"K">> :> {<<>>, <<"1">>, <<"x">>})
           @@ (<<"P", "K">> :> {<<"2">>})
           @@ (<<"P">> :> {<<"3">>}))

\* before a call on a record of at most MaxFields fields of Catalog, or on
\* a value that is no pointer to a struct
Init ==
  InitOf(Envs, {StructPtr(fs) : fs \in SeqsUpTo(Catalog, MaxFields)} \cup BadValues,
         BOOLEAN)

\* calls on records
Spec == Init /\ [][Next]_vars

\* the fields of the records of SpecField: every type, option list, default
\* and expansion flag
FieldCatalog ==
  {Plain(t, tag, def, exp, IF t = "int" THEN IntVal(7) ELSE StrVal(<<"old">>)) :
     t \in {"int", "string"},
     tag \in {<<>>} \cup {TagOf(<<"K">>, opts) : opts \in SeqsUpTo(OptTokens, MaxOpts)},
     def \in {<<>>, <<"5">>, <<"$", "{", "H", "}">>},
     exp \in {<<>>, <<"TRUE">>, <<"false">>}}

\* the environments of SpecField
FieldEnvs ==
  EnvsOver((<<"K">> :> {<<>>, <<"1">>, <<"x">>, <<"$", "{", "H", "}">>, <<"a", "$", "H">>})
           @@ (<<"P", "K">> :> {<<"2">>})
           @@ (<<"H">> :> {<<"4">>}))

\* before a call on a record of one field of FieldCatalog
InitField == InitOf(FieldEnvs, {StructPtr(<<f>>) : f \in FieldCatalog}, {TRUE})

\* calls on records of one field
SpecField == InitField /\ [][Next]_vars

(***************************************************************************)
(* What the claims speak of.                                               *)
(***************************************************************************)
\* the call was given a pointer to a struct
ValidTop == v0.ptr /\ v0.elem = "struct"

\* a field the loop resolves and converts: not a non-nil pointer
Ordinary(f) == ~(f.type = "ptr" /\ ~f.isNil)

\* the declared key of a field
KeyOf(f) == parseKeyForOption(f.env).key

\* the option list of a field
OptsOf(f) == parseKeyForOption(f.env).opts

\* the effective key of a field is bound in the environment
EffPresent(f) ==
  LET k == prefix \o KeyOf(f) IN k # <<>> /\ k \in DOMAIN env

\* the environment value at the effective key, or else the default
Resolved(f) ==
  IF EffPresent(f) THEN env[prefix \o KeyOf(f)] ELSE f.envDefault

\* the expansion flag of a field is "true" in any case of letters
ExpandFlag(f) == ToLower(f.envExpand) = <<"true">>

\* what one ordinary field yields by itself under the arguments of the call
FieldResult(f) ==
  LET g == get(env, f, prefix) IN
    IF ~g.err.nil THEN [failed |-> TRUE, valid |-> FALSE, msg |-> g.err.msg, field |-> f]
    ELSE IF g.val = <<>> THEN [failed |-> FALSE, valid |-> FALSE, msg |-> <<>>, field |-> f]
    ELSE LET r == set(f, g.val, funcMap) IN
      [failed |-> ~r.err.nil, valid |-> r.err.nil, msg |-> r.err.msg, field |-> r.field]

\* the messages of the failing fields, in declaration order
FailMsgs(fields) ==
  LET bad == SelectSeq(fields, LAMBDA f : FieldResult(f).failed)
  IN [n \in 1..Len(bad) |-> FieldResult(bad[n]).msg]

\* the per-field messages an error message is made of
MsgsOf(e) == IF e.nil THEN <<>> ELSE Split(e.msg, ". ")

\* C1: after a parse of a record of ordinary fields only, the error is nil
\* when no field fails and otherwise its message is the messages of the
\* failing fields in declaration order joined by ". "; every field that
\* resolves to a non-empty value and converts holds the converted value.
C1_Aggregation ==
  (pc = "done" /\ ValidTop /\ \A i \in 1..Len(v0.fields) : Ordinary(v0.fields[i])) =>
    /\ err.nil = (FailMsgs(v0.fields) = <<>>)
    /\ MsgsOf(err) = FailMsgs(v0.fields)
    /\ Len(v.fields) = Len(v0.fields)
    /\ \A i \in 1..Len(v0.fields) :
         FieldResult(v0.fields[i]).valid => v.fields[i] = FieldResult(v0.fields[i]).field

\* a failing field declared before a valid one, and a second failing field
C1_Witness ==
  /\ pc = "done" /\ ValidTop
  /\ Len(v0.fields) = 2
  /\ \A i \in 1..2 : Ordinary(v0.fields[i])
  /\ FieldResult(v0.fields[1]).failed
  /\ FieldResult(v0.fields[2]).valid
  /\ v.fields[2].val # v0.fields[2].val
  /\ ~err.nil

\* the option list of a field holds the option "required"
HasRequired(f) == \E j \in 1..Len(OptsOf(f)) : OptsOf(f)[j] = <<"required">>

\* the positions of the options that are neither "required" nor empty
UnknownOpts(f) == {j \in 1..Len(OptsOf(f)) : OptsOf(f)[j] \notin {<<>>, <<"required">>}}

\* the message of the error for a required key that is not set
RequiredMsg(f) ==
  <<"required environment variable ", "\"">> \o KeyOf(f) \o <<"\"", " is not set">>

\* the message of the error for an option that is not supported
NotSupportedMsg(opt) == <<"env tag option ", "\"">> \o opt \o <<"\"", " not supported">>

\* what the claim C2 says of the visited field en.index of record fields
RequiredPresence(en, f) ==
  /\ ~EffPresent(f) => en.step = "getError" /\ en.msg = RequiredMsg(f)
  /\ EffPresent(f) => en.step # "getError" /\ en.raw = env[prefix \o KeyOf(f)]

\* C2 as stated: a field with the option "required" fails resolution with
\* the error "required environment variable <key> is not set" exactly when
\* the effective key is absent from the environment, default or not, and
\* resolves without error when the key is present, even with an empty value.
C2_Original ==
  (pc = "done" /\ ValidTop) =>
    \A n \in 1..Len(visited) :
      LET f == v0.fields[visited[n].index] IN
        (Ordinary(f) /\ HasRequired(f)) => RequiredPresence(visited[n], f)

\* C2 as amended: the same for a field whose options are all "required" or
\* empty, with at least one "required".
C2_RequiredPresence ==
  (pc = "done" /\ ValidTop) =>
    \A n \in 1..Len(visited) :
      LET f == v0.fields[visited[n].index] IN
        (Ordinary(f) /\ HasRequired(f) /\ UnknownOpts(f) = {}) =>
          RequiredPresence(visited[n], f)

\* a required field with a default whose key is absent failed, and the
\* field was left alone
C2_Witness ==
  /\ pc = "done" /\ ValidTop /\ Len(v0.fields) = 1
  /\ HasRequired(v0.fields[1]) /\ UnknownOpts(v0.fields[1]) = {}
  /\ v0.fields[1].envDefault = <<"5">>
  /\ ~EffPresent(v0.fields[1])
  /\ visited[1].step = "getError"
  /\ err.msg = RequiredMsg(v0.fields[1])
  /\ v.fields[1] = v0.fields[1]

\* the field after the call holds what converting raw gives, and raw is the
\* string the loop converted
HoldsConverted(en, f, after, raw) ==
  /\ en.step \in {"set", "setError"}
  /\ en.raw = raw
  /\ after = set(f, raw, funcMap).field

\* the field was skipped: no error, no conversion, the prior value kept
KeepsPrior(en, f, after) == en.step = "empty" /\ after = f

\* C3 as stated: a field without options holds the converted environment
\* value when the effective key is present with a non-empty value, the
\* converted default when the key is absent and the default is not empty,
\* and keeps its prior value, with no error and no conversion, when the
\* resolved string is empty.
C3_Original ==
  (pc = "done" /\ ValidTop) =>
    \A n \in 1..Len(visited) :
      LET en == visited[n]
          f == v0.fields[en.index]
          after == v.fields[en.index]
      IN (Ordinary(f) /\ OptsOf(f) = <<>>) =>
           /\ (EffPresent(f) /\ Resolved(f) # <<>>) =>
                HoldsConverted(en, f, after, env[prefix \o KeyOf(f)])
           /\ (~EffPresent(f) /\ f.envDefault # <<>>) =>
                HoldsConverted(en, f, after, f.envDefault)
           /\ Resolved(f) = <<>> => KeepsPrior(en, f, after)

\* the string a field without options resolves to: the resolved value,
\* expanded when the expansion flag is set
ResolvedRaw(f) == IF ExpandFlag(f) THEN ExpandEnv(env, Resolved(f)) ELSE Resolved(f)

\* C3 as amended: the value converted is the resolved value (environment
\* value, else default) after expansion when the expansion flag is set; the
\* field holds its conversion when that string is not empty and keeps its
\* prior value, with no error and no conversion, when it is empty.
C3_ValueResolution ==
  (pc = "done" /\ ValidTop) =>
    \A n \in 1..Len(visited) :
      LET en == visited[n]
          f == v0.fields[en.index]
          after == v.fields[en.index]
      IN (Ordinary(f) /\ OptsOf(f) = <<>>) =>
           /\ ResolvedRaw(f) # <<>> => HoldsConverted(en, f, after, ResolvedRaw(f))
           /\ ResolvedRaw(f) = <<>> => KeepsPrior(en, f, after)

\* a field without options whose key is absent holds its converted default,
\* under a prefix
C3_Witness ==
  /\ pc = "done" /\ ValidTop /\ Len(v0.fields) = 1
  /\ prefix = <<"P">> /\ funcMap = <<>>
  /\ v0.fields[1].env = <<"K">> /\ v0.fields[1].type = "int"
  /\ v0.fields[1].envDefault = <<"5">>
  /\ ~EffPresent(v0.fields[1])
  /\ <<"K">> \in DOMAIN env
  /\ v.fields[1].val = IntVal(5)

\* C4 as stated: under a prefix, every field of the struct a non-nil
\* pointer field points to is resolved at the effective key prefix + key.
C4_NestedPrefix ==
  (pc = "done" /\ ValidTop) =>
    \A n \in 1..Len(visited) :
      LET en == visited[n]
          f == v0.fields[en.index]
      IN (en.step = "recurse" /\ f.elem = "struct") =>
           \A m \in 1..Len(en.nested) :
             LET ne == en.nested[m]
                 g == get(env, f.target[ne.index], prefix)
             IN IF ~g.err.nil THEN ne.step = "getError" /\ ne.msg = g.err.msg
                ELSE ne.step # "getError" /\ ne.raw = g.val

\* what C5 says of a visited field: with a converter registered for its
\* type, the value converted is the converter's
CustomWins(en, f, after) ==
  (f.type \in DOMAIN funcMap /\ en.step \in {"set", "setError"}) =>
    LET r == ApplyParser(funcMap[f.type], en.raw) IN
      IF r.err.nil THEN en.step = "set" /\ after.val = r.val
      ELSE en.step = "setError" /\ en.msg = <<"Custom parser error: ">> \o r.err.msg

\* C5 as stated: every visited field whose type has a caller-supplied
\* converter is converted by it, in the record and in the structs its
\* non-nil pointer fields point to.
C5_CustomPrecedence ==
  (pc = "done" /\ ValidTop) =>
    \A n \in 1..Len(visited) :
      LET en == visited[n]
          f == v0.fields[en.index]
          after == v.fields[en.index]
      IN /\ CustomWins(en, f, after)
         /\ \A m \in 1..Len(en.nested) :
              CustomWins(en.nested[m], f.target[en.nested[m].index],
                         after.target[en.nested[m].index])

\* C6 as stated: a field with an option other than "required" or the empty
\* one fails resolution with the error naming such an option, and is left
\* as it was.
C6_UnknownOption ==
  (pc = "done" /\ ValidTop) =>
    \A n \in 1..Len(visited) :
      LET en == visited[n]
          f == v0.fields[en.index]
      IN (Ordinary(f) /\ UnknownOpts(f) # {}) =>
           /\ en.step = "getError"
           /\ \E j \in UnknownOpts(f) : en.msg = NotSupportedMsg(OptsOf(f)[j])
           /\ v.fields[en.index] = f

\* C7 as stated: the string converted is the resolved value with its
\* variable references expanded when the expansion flag is set, with or
\* without the option "required", and the resolved value as it is otherwise.
C7_Expansion ==
  (pc = "done" /\ ValidTop) =>
    \A n \in 1..Len(visited) :
      LET en == visited[n]
          f == v0.fields[en.index]
      IN (Ordinary(f) /\ en.step # "getError") => en.raw = ResolvedRaw(f)

\* C8 as stated: a pointer field that is nil before the parse is nil after
\* it and contributes no error.
C8_NilPointer ==
  (pc = "done" /\ ValidTop) =>
    /\ \A i \in 1..Len(v0.fields) :
         (v0.fields[i].type = "ptr" /\ v0.fields[i].elem = "struct" /\ v0.fields[i].isNil)
           => v.fields[i].isNil
    /\ \A n \in 1..Len(visited) :
         LET f == v0.fields[visited[n].index] IN
           (f.type = "ptr" /\ f.elem = "struct" /\ f.isNil)
             => visited[n].step \notin {"getError", "setError"}

\* the messages of the errors the loop met, in order
Recorded(vs) ==
  LET bad == SelectSeq(vs, LAMBDA en : en.step \in {"getError", "setError"}
                                        \/ (en.step = "recurse" /\ en.msg # <<>>))
  IN [n \in 1..Len(bad) |-> bad[n].msg]

\* the call was refused: nothing resolved, assigned or reported
Refused == err = ErrNotAStructPtr /\ visited = <<>> /\ calls = <<>> /\ v = v0

\* the loop reached every field, in declaration order
AllVisited ==
  /\ Len(visited) = Len(v0.fields)
  /\ \A n \in 1..Len(visited) : visited[n].index = n

\* C9 as stated: given a pointer to a struct, every field is attempted and
\* every error met is in the outcome; any other value is refused with
\* ErrNotAStructPtr before any field is resolved or assigned or the hook
\* called.
C9_Original ==
  pc = "done" =>
    IF ValidTop
      THEN AllVisited /\ MsgsOf(err) = Recorded(visited)
      ELSE Refused

\* the recursion into a non-nil pointer field returned an error
NestedFailed(en) == en.step = "recurse" /\ en.msg # <<>>

\* C9 as amended: given a pointer to a struct, every field is attempted and
\* every error met is in the outcome unless the recursion into a non-nil
\* pointer field returns an error; that error is returned at once, as the
\* whole outcome, and the fields after it are not reached.  Any other value
\* is refused with ErrNotAStructPtr before anything is done.
C9_NoShortCircuit ==
  pc = "done" =>
    IF ~ValidTop THEN Refused
    ELSE IF \A n \in 1..Len(visited) : ~NestedFailed(visited[n])
      THEN AllVisited /\ MsgsOf(err) = Recorded(visited)
    ELSE /\ NestedFailed(visited[Len(visited)])
         /\ \A n \in 1..Len(visited) : visited[n].index = n
         /\ \A n \in 1..(Len(visited) - 1) : ~NestedFailed(visited[n])
         /\ ~err.nil /\ err.msg = visited[Len(visited)].msg

\* both fields of a record fail, the first in resolution and the second in
\* conversion, and both messages are in the outcome
C9_Witness ==
  /\ pc = "done" /\ ValidTop
  /\ Len(v0.fields) = 2 /\ AllVisited
  /\ visited[1].step = "getError" /\ visited[2].step = "setError"
  /\ MsgsOf(err) = <<visited[1].msg, visited[2].msg>>

\* C10 as stated: a field that declares neither a key nor a default is
\* never assigned, converted or in error.
C10_Unannotated ==
  (pc = "done" /\ ValidTop) =>
    \A n \in 1..Len(visited) :
      LET en == visited[n]
          f == v0.fields[en.index]
      IN (Ordinary(f) /\ f.env = <<>> /\ f.envDefault = <<>>) =>
           en.step = "empty" /\ v.fields[en.index] = f

====
